---- MODULE Spec2Model ----
(***************************************************************************)
(* The hedge menu of openbb_terminal/stocks/options/hedge:                 *)
(* HedgeController (hedge_controller.py) and the view functions it calls   *)
(* (hedge_view.py).  One action per command handler (call_pick, call_add,  *)
(* call_rmv, call_sop, call_plot, call_list).                              *)
(*                                                                         *)
(* Python values are modelled as follows.                                  *)
(*   dict            a function; {} is the function with empty domain      *)
(*   str / float     where the code mixes both in one attribute            *)
(*                   (self.strike) the value carries its type:             *)
(*                   <<"str", s>> or <<"float", x>>                        *)
(*   list row i      element i + 1 of a sequence (Python counts from 0)    *)
(* What a command prints, which collaborators it calls and whether it      *)
(* raises is recorded in the variable out, with the command's name.        *)
(***************************************************************************)
EXTENDS Integers, Sequences, FiniteSets, TLC

\* Largest number of rows of either side of the option chain.
MaxChain == 2

VARIABLES
    calls,                      \* self.calls: rows <<strike, iv, lastPrice>>
    puts,                       \* self.puts
    days,                       \* (expiration - now).days + 1, read by pick and add
    options,                    \* self.options
    greeks,                     \* self.greeks
    underlying_asset_position,  \* self.underlying_asset_position ("" is <<>>)
    underlying,                 \* self.underlying
    side,                       \* self.side
    amount,                     \* self.amount
    strike,                     \* self.strike
    rmv_choices,                \* self.choices["rmv"] (absent: {})
    out                         \* the command handled last: what it printed,
                                \* which collaborators it called, what it raised

stateVars == <<options, greeks, underlying_asset_position, underlying, side,
               amount, strike, rmv_choices>>
envVars == <<calls, puts, days>>
vars == <<calls, puts, days, options, greeks, underlying_asset_position,
          underlying, side, amount, strike, rmv_choices, out>>

-----------------------------------------------------------------------------
\* Python values

EmptyDict == <<>>

\* key in d
Has(d, key) == key \in DOMAIN d

\* bool(d) of a dict
NonEmpty(d) == DOMAIN d # {}

PyStr(s) == <<"str", s>>

PyFloat(x) == <<"float", x>>

\* a == b of two tagged values: a float never equals a str.
PyEq(a, b) == a[1] = b[1] /\ a[2] = b[2]

\* float(s) of the numeric strings the commands are given.
StrToFloat(s) ==
    CASE s = "100" -> 100
      [] s = "105" -> 105
      [] s = "120" -> 120
      [] s = "500" -> 500
      [] s = "1000" -> 1000

ToFloat(v) == IF v[1] = "str" THEN StrToFloat(v[2]) ELSE v[2]

Last(s) == s[Len(s)]

-----------------------------------------------------------------------------
\* The session's surroundings: option chain, spot price, clock.

\* get_price(ticker)
current_price == 102

\* The option chain of get_option_chain: rows by ascending strike.
CallRows(n) == [i \in 1..n |-> <<100 + 5 * (i - 1), 20 + i, 10 - i>>]

PutRows(n) == [i \in 1..n |-> <<100 + 5 * (i - 1), 30 + i, 2 + i>>]

\* The chains a session is opened on: either side may be the longer one.
ChainShapes == {<<MaxChain, MaxChain - 1>>, <<MaxChain - 1, MaxChain>>}

\* Whole days from now to the expiration, plus one.
DaysSet == {-1, 0, 1}

\* days / 365 with the days == 0.0 replacement by 0.01, in units of 1/36500 year.
TimeToExpiry(d) == IF d = 0 THEN 1 ELSE 100 * d

\* hedge_model.add_hedge_option: a pure function of its five arguments; each
\* Greek is kept as the term <<name, price, iv, strike, time, side>>.
add_hedge_option(price, implied_volatility, k, t, s) ==
    <<<<"Delta", price, implied_volatility, k, t, s>>,
      <<"Gamma", price, implied_volatility, k, t, s>>,
      <<"Vega", price, implied_volatility, k, t, s>>>>

\* The dict {"Delta": d, "Gamma": g, "Vega": v} that a triple is stored as.
GreeksDict(triple) ==
    [g \in {"Delta", "Gamma", "Vega"} |->
        CASE g = "Delta" -> triple[1]
          [] g = "Gamma" -> triple[2]
          [] g = "Vega" -> triple[3]]

-----------------------------------------------------------------------------
\* What a command leaves behind for the user.

NoOut(name) ==
    [cmd |-> name, msgs |-> <<>>, positions |-> <<>>, greeks_shown |-> <<>>,
     solver |-> <<>>, plot |-> <<>>, refreshed |-> FALSE, fault |-> "none"]

Say(o, m) == [o EXCEPT !.msgs = Append(@, m)]

-----------------------------------------------------------------------------
\* __init__

Init ==
    /\ \E shape \in ChainShapes :
          /\ calls = CallRows(shape[1])
          /\ puts = PutRows(shape[2])
    /\ days \in DaysSet
    /\ options = [k \in {"Portfolio", "Option A", "Option B"} |-> EmptyDict]
    /\ greeks = [k \in {"Portfolio", "Option A", "Option B"} |-> EmptyDict]
    /\ underlying_asset_position = <<>>
    /\ underlying = 0
    /\ side = ""
    /\ amount = 0
    /\ strike = PyFloat(0)
    /\ rmv_choices = {}
    /\ out = NoOut("init")

-----------------------------------------------------------------------------
\* pick

PickStrikes == {"100", "120"}

PickAmounts == {"1000"}

PickArgs ==
    [strike : PickStrikes, underlying : {"Long", "Short"},
     side : {"Call", "Put"}, amount : PickAmounts]

\* The loop over the chain's strikes: the first row whose strike == self.strike,
\* as a Python index; -1 when the loop finds none.
FindStrike(rows, k) ==
    LET hits == {i \in 1..Len(rows) : PyEq(PyFloat(rows[i][1]), k)}
    IN  IF hits = {} THEN -1
        ELSE (CHOOSE i \in hits : \A j \in hits : i <= j) - 1

\* series.iloc[index] of the impliedVolatility column; -1 is the last row.
IlocIV(rows, index) == IF index = -1 THEN Last(rows)[2] ELSE rows[index + 1][2]

\* A pick that keeps Portfolio Greeks already there
StorePortfolio_KeepFirst(g, triple) ==
    IF NonEmpty(g["Portfolio"]) THEN g
    ELSE [g EXCEPT !["Portfolio"] = GreeksDict(triple)]

\* The assignment of the computed triple to self.greeks["Portfolio"].
StorePortfolio(g, triple) == [g EXCEPT !["Portfolio"] = GreeksDict(triple)]

call_pick(a) ==
    LET s == IF a.side = "Put" THEN -1 ELSE 1
        k == PyStr(a.strike)
        rows == IF s = -1 THEN puts ELSE calls
        index == FindStrike(rows, k)
        implied_volatility == IlocIV(rows, index)
    IN  /\ underlying_asset_position' = <<a.underlying, a.side, a.amount, a.strike>>
        /\ underlying' = IF a.underlying = "Short" THEN -1 ELSE 1
        /\ side' = IF a.side = "Put" THEN "Put" ELSE "Call"
        /\ amount' = StrToFloat(a.amount)
        /\ strike' = k
        /\ greeks' = StorePortfolio(greeks,
                         add_hedge_option(current_price, implied_volatility,
                                          ToFloat(k), TimeToExpiry(days), s))
        /\ out' = NoOut("pick")
        /\ UNCHANGED <<options, rmv_choices, envVars>>

Pick == \E a \in PickArgs : call_pick(a)

-----------------------------------------------------------------------------
\* Helpers of add, rmv and sop

\* The rows of the "Current Option Positions" table: one row per non-empty
\* value of self.options, in the dict's order.
PositionRow(value) ==
    <<value.type, IF value.sign = 1 THEN "Long" ELSE "Short", value.strike,
      value.implied_volatility>>

PositionsOf(opts) ==
    LET row(key) == IF Has(opts, key) /\ NonEmpty(opts[key])
                    THEN <<PositionRow(opts[key])>> ELSE <<>>
    IN  row("Portfolio") \o row("Option A") \o row("Option B")

ShowPositions(o, opts) ==
    [o EXCEPT !.msgs = Append(@, "Current Option Positions"),
              !.positions = PositionsOf(opts)]

\* update_runtime_choices, with the prompt toolkit session in use
update_runtime_choices(opts, choices) ==
    IF NonEmpty(opts) THEN {"Option A", "Option B"} ELSE choices

\* hedge_view.show_calculated_hedge: hands its four arguments to calc_hedge.
show_calculated_hedge(o, portfolio_option_amount, s, g, sign) ==
    [o EXCEPT !.solver = Append(@, [amount |-> portfolio_option_amount,
                                    side |-> s, greeks |-> g, sign |-> sign])]

\* hedge_view.add_and_show_greeks: computes the triple and shows it.
add_and_show_greeks(o, price, implied_volatility, k, t, s) ==
    [o EXCEPT !.greeks_shown = Append(@, <<price, implied_volatility, k, t, s>>),
              !.msgs = Append(@, "Greeks")]

-----------------------------------------------------------------------------
\* add

PutFlags == {"", "-p", "--put"}

AddArgs == [put : PutFlags, short : BOOLEAN, identifier : 0..MaxChain]

call_index_choices == 0..(Len(calls) - 1)

put_index_choices == 0..(Len(puts) - 1)

\* parse_known_args_and_warn for add: the identifier must be one of the choices,
\* which are the put indices only when the literal "-p" is among the arguments.
AddParsed(a) ==
    a.identifier \in (IF a.put = "-p" THEN put_index_choices ELSE call_index_choices)

\* add without its test for a picked position
PortfolioPicked_Unchecked == TRUE

\* not self.greeks["Portfolio"], negated
PortfolioPicked == NonEmpty(greeks["Portfolio"])

\* ns_parser.put
AddPut(a) == a.put # ""

\* ns_parser.short as the sign
AddSign(a) == IF a.short THEN -1 ELSE 1

AddOptionsList(a) == IF AddPut(a) THEN puts ELSE calls

\* ns_parser.identifier < len(options_list)
AddInRange(a) == a.identifier < Len(AddOptionsList(a))

\* The option dict of an add whose identifier is in range.
AddOption(a) ==
    LET row == AddOptionsList(a)[a.identifier + 1]
    IN  [type |-> IF AddPut(a) THEN "Put" ELSE "Call", sign |-> AddSign(a),
         strike |-> row[1], implied_volatility |-> row[2], cost |-> row[3]]

\* The arguments add hands to add_and_show_greeks.
AddGreeksArgs(a) ==
    LET option == AddOption(a)
    IN  <<current_price, option.implied_volatility, option.strike,
          TimeToExpiry(days), IF option.type = "Call" THEN 1 ELSE -1>>

\* The slot an accepted add stores into: the first whose Greeks lack "Delta".
\* An add that takes Option B whenever Option A is taken.
AddSlot_SecondAlways ==
    IF ~Has(greeks["Option A"], "Delta") THEN "Option A" ELSE "Option B"

AddSlot ==
    IF ~Has(greeks["Option A"], "Delta") THEN "Option A"
    ELSE IF ~Has(greeks["Option B"], "Delta") THEN "Option B"
    ELSE "none"

\* Both leg Greeks hold "Delta": the condition under which add and sop solve.
BothDeltas(g) == Has(g["Option A"], "Delta") /\ Has(g["Option B"], "Delta")

call_add(a) ==
    LET option == AddOption(a)
        g == AddGreeksArgs(a)
        slot == AddSlot
        triple == add_hedge_option(g[1], g[2], g[3], g[4], g[5])
        options1 == [options EXCEPT ![slot] = option]
        greeks1 == [greeks EXCEPT ![slot] = GreeksDict(triple)]
        out1 == ShowPositions(
                    add_and_show_greeks(Say(NoOut("add"), "cost"),
                                        g[1], g[2], g[3], g[4], g[5]),
                    options1)
        out2 == IF BothDeltas(greeks1)
                THEN show_calculated_hedge(out1, amount, option.type, greeks1,
                                           AddSign(a))
                ELSE out1
    IN  /\ IF ~AddParsed(a)
           THEN /\ out' = Say(NoOut("add"), "Please use a valid index")
                /\ UNCHANGED stateVars
           ELSE IF ~PortfolioPicked
           THEN /\ out' = Say(NoOut("add"), "Please set the Underlying Asset Position")
                /\ UNCHANGED stateVars
           ELSE IF ~AddInRange(a)
           THEN /\ out' = NoOut("add")
                /\ UNCHANGED stateVars
           ELSE IF slot = "none"
           THEN /\ out' = Say(Say(NoOut("add"), "cost"),
                              "The functionality only accepts two options")
                /\ UNCHANGED stateVars
           ELSE /\ options' = options1
                /\ greeks' = greeks1
                /\ rmv_choices' = update_runtime_choices(options1, rmv_choices)
                /\ out' = [out2 EXCEPT !.refreshed = TRUE]
                /\ UNCHANGED <<underlying_asset_position, underlying, side,
                               amount, strike>>
        /\ UNCHANGED envVars

Add == \E a \in AddArgs : call_add(a)

-----------------------------------------------------------------------------
\* rmv

\* What rmv is given: -a, -o with a name, nothing, or arguments the parser
\* refuses (-o without a name).
RmvNames == {"Option A", "Option B", "Portfolio", "Option C"}

RmvArgs ==
    {[all |-> TRUE, option |-> "None", parsed |-> TRUE]}
    \cup [all : {FALSE}, option : RmvNames \cup {"None"}, parsed : {TRUE}]
    \cup {[all |-> FALSE, option |-> "None", parsed |-> FALSE]}

\* The tail of rmv: the positions table when a Leg is left.
RmvShow(o, opts) ==
    IF NonEmpty(opts["Option A"]) \/ NonEmpty(opts["Option B"])
    THEN ShowPositions(o, opts) ELSE o

\* A rmv that never takes the "Please add Options" exit.
RmvNoLegs_Never(opts) == FALSE

\* A rmv of a name that leaves self.greeks alone, as rmv -a does.
RmvNamedGreeks_Kept(g, name) == g

\* rmv's test that neither slot holds a Leg
RmvNoLegs(opts) == ~NonEmpty(opts["Option A"]) /\ ~NonEmpty(opts["Option B"])

\* self.greeks after rmv of the key name
RmvNamedGreeks(g, name) == [g EXCEPT ![name] = EmptyDict]

\* self.options after rmv -a
RmvAllOptions == [k \in {"Option A", "Option B"} |-> EmptyDict]

call_rmv(a) ==
    /\ IF ~a.parsed
       THEN /\ out' = Say(NoOut("rmv"), "No options have been selected")
            /\ UNCHANGED stateVars
       ELSE IF RmvNoLegs(options)
       THEN /\ out' = Say(NoOut("rmv"), "Please add Options")
            /\ UNCHANGED stateVars
       ELSE IF a.all
       THEN \* self.options is replaced; self.greeks is not touched
            /\ options' = RmvAllOptions
            /\ out' = RmvShow(NoOut("rmv"), RmvAllOptions)
            /\ UNCHANGED <<greeks, underlying_asset_position, underlying, side,
                           amount, strike, rmv_choices>>
       ELSE IF a.option = "None"
       THEN \* " ".join(None)
            /\ out' = [NoOut("rmv") EXCEPT !.fault = "TypeError"]
            /\ UNCHANGED stateVars
       ELSE IF Has(options, a.option)
       THEN LET options1 == [options EXCEPT ![a.option] = EmptyDict]
            IN  /\ options' = options1
                /\ greeks' = RmvNamedGreeks(greeks, a.option)
                /\ rmv_choices' = update_runtime_choices(options1, rmv_choices)
                /\ out' = RmvShow([NoOut("rmv") EXCEPT !.refreshed = TRUE], options1)
                /\ UNCHANGED <<underlying_asset_position, underlying, side,
                               amount, strike>>
       ELSE /\ out' = RmvShow(Say(NoOut("rmv"), "is not an option"), options)
            /\ UNCHANGED stateVars
    /\ UNCHANGED envVars

Rmv == \E a \in RmvArgs : call_rmv(a)

-----------------------------------------------------------------------------
\* sop, plot, list

call_sop ==
    /\ IF ~NonEmpty(options["Option A"]) /\ ~NonEmpty(options["Option B"])
       THEN out' = Say(NoOut("sop"), "Please add Options")
       ELSE LET out1 == ShowPositions(NoOut("sop"), options)
            IN  IF BothDeltas(greeks)
                THEN IF Has(options["Option A"], "type")
                     THEN out' = show_calculated_hedge(out1, amount,
                                     options["Option A"].type, greeks,
                                     options["Option A"].sign)
                     ELSE \* self.options["Option A"]["type"] of {}
                          out' = [out1 EXCEPT !.fault = "KeyError"]
                ELSE out' = out1
    /\ UNCHANGED <<stateVars, envVars>>

\* A plot that consumes the Legs it draws.
call_plot_Consuming ==
    /\ out' = [NoOut("plot") EXCEPT !.plot =
                  <<[price |-> current_price,
                     options |-> <<options["Option A"], options["Option B"]>>,
                     underlying |-> underlying]>>]
    /\ options' = [options EXCEPT !["Option A"] = EmptyDict,
                                  !["Option B"] = EmptyDict]
    /\ UNCHANGED <<greeks, underlying_asset_position, underlying, side,
                   amount, strike, rmv_choices, envVars>>

call_plot ==
    /\ out' = [NoOut("plot") EXCEPT !.plot =
                  <<[price |-> current_price,
                     options |-> <<options["Option A"], options["Option B"]>>,
                     underlying |-> underlying]>>]
    /\ UNCHANGED <<stateVars, envVars>>

call_list ==
    /\ out' = Say(NoOut("list"), "Available Calls and Puts")
    /\ UNCHANGED <<stateVars, envVars>>

Next == Pick \/ Add \/ Rmv \/ call_sop \/ call_plot \/ call_list

Spec == Init /\ [][Next]_vars

-----------------------------------------------------------------------------
\* hedge_view.show_calculated_hedge, from calc_hedge's result to what is shown

MaxWeight == 2

\* The results calc_hedge may hand back: three weights and is_singular.
HedgeResults ==
    (-MaxWeight..MaxWeight) \X (-MaxWeight..MaxWeight)
        \X (-MaxWeight..MaxWeight) \X BOOLEAN

\* A view that shows the weights as soon as one of them is not zero.
HedgeReport_AnyWeight(r) ==
    IF r[1] # 0 \/ r[2] # 0 \/ r[3] # 0
    THEN [table |-> <<r[1], r[2], r[3]>>,
          msgs |-> <<"Neutral Portfolio Weights">>
                   \o (IF r[4] THEN <<"yields multiple solutions">> ELSE <<>>)]
    ELSE [table |-> <<>>, msgs |-> <<"can not be solved">>]

\* What is shown for the result r: the weights table, with the warning when
\* is_singular, or the refusal.
HedgeReport(r) ==
    IF r[1] + r[2] + r[3] # 0
    THEN [table |-> <<r[1], r[2], r[3]>>,
          msgs |-> <<"Neutral Portfolio Weights">>
                   \o (IF r[4] THEN <<"yields multiple solutions">> ELSE <<>>)]
    ELSE [table |-> <<>>, msgs |-> <<"can not be solved">>]

\* One call of show_calculated_hedge in which calc_hedge returns r.
ShowHedge ==
    \E r \in HedgeResults :
        /\ out' = [cmd |-> "show_calculated_hedge", result |-> r,
                   table |-> HedgeReport(r).table, msgs |-> HedgeReport(r).msgs]
        /\ UNCHANGED <<stateVars, envVars>>

NextView == ShowHedge

SpecView == Init /\ [][NextView]_vars

-----------------------------------------------------------------------------
\* Vocabulary of the properties

Slots == {"Option A", "Option B"}

\* Slot s of the dicts opts / g holds a Leg / holds Greeks.
LegIn(opts, s) == NonEmpty(opts[s])

GreeksIn(g, s) == NonEmpty(g[s])

HasLeg(s) == LegIn(options, s)

HasGreeks(s) == GreeksIn(greeks, s)

\* The underlying position: sign, side, amount, strike and its description.
position == <<underlying, side, amount, strike, underlying_asset_position>>

\* No pick has been handled yet.
NeverPicked == underlying_asset_position = <<>>

\* The add names a row of the chain side it selects, and the parser lets it through.
ValidAdd(a) == AddParsed(a) /\ AddInRange(a)

\* The Greeks dict add computes for its Leg.
AddGreeks(a) ==
    LET g == AddGreeksArgs(a)
    IN  GreeksDict(add_hedge_option(g[1], g[2], g[3], g[4], g[5]))

RmvAll == [all |-> TRUE, option |-> "None", parsed |-> TRUE]

Reported(o) == o.msgs # <<>>

Said(o, m) == \E i \in 1..Len(o.msgs) : o.msgs[i] = m

\* The pick names a strike that some row of the chain side it names carries.
StrikeInChain(a) ==
    LET rows == IF a.side = "Put" THEN puts ELSE calls
    IN  \E i \in 1..Len(rows) : rows[i][1] = StrToFloat(a.strike)

-----------------------------------------------------------------------------
\* C1: in every reachable state, each of Option A and Option B holds Greeks
\* exactly when it holds a Leg.
C1_GreeksIffLeg == \A s \in Slots : HasGreeks(s) <=> HasLeg(s)

\* C2: rmv all, issued while some slot holds a Leg, leaves both slots without
\* Leg and without Greeks, and the Portfolio Greeks and the underlying position
\* as they were.
C2_RmvAllToPositionPicked ==
    [][(out'.cmd = "rmv" /\ call_rmv(RmvAll) /\ \E s \in Slots : HasLeg(s))
        => /\ \A s \in Slots : ~LegIn(options', s) /\ ~GreeksIn(greeks', s)
           /\ greeks'["Portfolio"] = greeks["Portfolio"]
           /\ position' = position]_vars

\* C3: with Portfolio Greeks present and a slot without a Leg, a valid add stores
\* its Leg and Greeks in the first slot without a Leg (Option A before Option B)
\* and leaves the other slot as it was.
C3_AddFirstEmptySlot ==
    [][\A a \in AddArgs :
        (out'.cmd = "add" /\ call_add(a) /\ ValidAdd(a) /\ PortfolioPicked
            /\ \E s \in Slots : ~HasLeg(s))
        => LET slot == IF ~HasLeg("Option A") THEN "Option A" ELSE "Option B"
               other == IF slot = "Option A" THEN "Option B" ELSE "Option A"
           IN  /\ options'[slot] = AddOption(a)
               /\ greeks'[slot] = AddGreeks(a)
               /\ options'[other] = options[other]
               /\ greeks'[other] = greeks[other]]_vars

\* C4: no rmv, whatever its argument, changes the Portfolio Greeks or the
\* underlying position; a name that is no removable slot is reported and
\* changes nothing at all.
C4_RmvKeepsPosition ==
    [][\A a \in RmvArgs :
        (out'.cmd = "rmv" /\ call_rmv(a))
        => /\ greeks'["Portfolio"] = greeks["Portfolio"]
           /\ position' = position
           /\ (a.parsed /\ ~a.all /\ a.option \in RmvNames \ Slots)
                => (Reported(out') /\ UNCHANGED stateVars)]_vars

\* C5: an add issued while Portfolio Greeks are absent is answered by a message,
\* computes no Greeks, solves nothing and changes nothing; before the first pick
\* both slots are therefore still without Leg and without Greeks after it.
C5_AddBeforePickRejected ==
    [][\A a \in AddArgs :
        (out'.cmd = "add" /\ ~GreeksIn(greeks, "Portfolio") /\ call_add(a))
        => /\ Reported(out')
           /\ out'.greeks_shown = <<>> /\ out'.solver = <<>>
           /\ UNCHANGED stateVars
           /\ NeverPicked
                => \A s \in Slots : ~LegIn(options', s) /\ ~GreeksIn(greeks', s)]_vars

\* An add was just turned away for want of a pick, in a session never picked.
C5_Witness ==
    /\ out.cmd = "add"
    /\ out.msgs = <<"Please set the Underlying Asset Position">>
    /\ NeverPicked
    /\ ~GreeksIn(greeks, "Portfolio")

\* C6: a valid add issued while both slots hold a Leg is answered by the
\* "only accepts two options ... remove an option with 'rmv'" message, leaves
\* every Leg and all Greeks as they were, and does not call the solver.
C6_ThirdAddRejected ==
    [][\A a \in AddArgs :
        (out'.cmd = "add" /\ HasLeg("Option A") /\ HasLeg("Option B")
            /\ ValidAdd(a) /\ call_add(a))
        => /\ Said(out', "The functionality only accepts two options")
           /\ options' = options
           /\ greeks' = greeks
           /\ out'.solver = <<>>]_vars

\* C7: whenever a command has called the solver, both Option A and Option B
\* hold a Leg and its Greeks.
C7_SolverOnlyWithTwoLegs ==
    out.solver # <<>> => \A s \in Slots : HasLeg(s) /\ HasGreeks(s)

\* C8: Portfolio Greeks are absent until the first pick; a pick sets the
\* underlying position to its own arguments and the Portfolio Greeks to the
\* Greeks of its own strike and side (at a volatility of the chain side it
\* names), whatever they were before, and leaves self.options and both slots'
\* Greeks as they were.
C8_PickOverwrites ==
    /\ [](NeverPicked => ~GreeksIn(greeks, "Portfolio"))
    /\ [][\A a \in PickArgs :
            (out'.cmd = "pick" /\ call_pick(a))
            => LET s == IF a.side = "Put" THEN -1 ELSE 1
                   rows == IF a.side = "Put" THEN puts ELSE calls
               IN  /\ underlying' = (IF a.underlying = "Short" THEN -1 ELSE 1)
                   /\ side' = a.side
                   /\ amount' = StrToFloat(a.amount)
                   /\ strike' = PyStr(a.strike)
                   /\ underlying_asset_position'
                        = <<a.underlying, a.side, a.amount, a.strike>>
                   /\ \E i \in 1..Len(rows) :
                        greeks'["Portfolio"]
                          = GreeksDict(add_hedge_option(current_price, rows[i][2],
                                StrToFloat(a.strike), TimeToExpiry(days), s))
                   /\ options' = options
                   /\ \A slot \in Slots : greeks'[slot] = greeks[slot]]_vars

\* A pick has just been handled in a session that holds two Legs.
C8_Witness ==
    /\ out.cmd = "pick"
    /\ HasLeg("Option A") /\ HasLeg("Option B")
    /\ HasGreeks("Option A") /\ HasGreeks("Option B")
    /\ GreeksIn(greeks, "Portfolio")

\* C9: a pick whose strike is not in the chain of its option side is reported
\* and leaves the Portfolio Greeks as they were.
C9_PickUnknownStrikeFails ==
    [][\A a \in PickArgs :
        (out'.cmd = "pick" /\ ~StrikeInChain(a) /\ call_pick(a))
        => /\ Reported(out')
           /\ greeks'["Portfolio"] = greeks["Portfolio"]]_vars

\* C10: no pick, add, rmv (of a name or of all), sop or plot ends in a fault.
C10_NoUnhandledFault ==
    [][out'.fault = "none"
       \/ ~(Pick \/ Add \/ call_sop \/ call_plot
            \/ \E a \in RmvArgs : (a.all \/ a.option # "None") /\ call_rmv(a))]_vars

\* The slots of opts that hold a Leg.
LegSet(opts) == {s \in Slots : LegIn(opts, s)}

\* C11: every add and every rmv (of a name or of all) that changes which slots
\* hold a Leg calls update_runtime_choices.
C11_PopulationChangeRefreshes ==
    [][(out'.cmd \in {"add", "rmv"} /\ LegSet(options') # LegSet(options))
        => out'.refreshed]_vars

\* rmv -o with the slot name s
RmvNamed(s) == [all |-> FALSE, option |-> s, parsed |-> TRUE]

OtherSlot(s) == IF s = "Option A" THEN "Option B" ELSE "Option A"

\* C12: rmv of the slot name s while some slot holds a Leg empties options[s]
\* and greeks[s], and leaves the other slot's Leg and Greeks and the Portfolio
\* Greeks as they were.
C12_RmvNamedClearsOnlyThatSlot ==
    [][\A s \in Slots :
        (out'.cmd = "rmv" /\ call_rmv(RmvNamed(s)) /\ ~RmvNoLegs(options))
        => /\ ~LegIn(options', s) /\ ~GreeksIn(greeks', s)
           /\ options'[OtherSlot(s)] = options[OtherSlot(s)]
           /\ greeks'[OtherSlot(s)] = greeks[OtherSlot(s)]
           /\ greeks'["Portfolio"] = greeks["Portfolio"]]_vars

\* After rmv of Option A from two Legs: slot A is empty in both dicts, slot B
\* and the Portfolio Greeks are still there.
C12_Witness ==
    /\ out.cmd = "rmv" /\ out.refreshed /\ Len(out.positions) = 1
    /\ ~HasLeg("Option A") /\ ~HasGreeks("Option A")
    /\ HasLeg("Option B") /\ HasGreeks("Option B")
    /\ GreeksIn(greeks, "Portfolio")

\* C13: sop or plot with fewer than two Legs reports the guidance message,
\* calls neither the solver nor the payoff renderer, and changes nothing.
C13_FewerThanTwoLegsRefused ==
    [][(out'.cmd \in {"sop", "plot"} /\ Cardinality(LegSet(options)) < 2)
        => /\ Said(out', "Please add Options")
           /\ out'.solver = <<>> /\ out'.plot = <<>>
           /\ UNCHANGED stateVars]_vars

\* The times to expiry handed to the Greeks calculator: by add (recorded with
\* the shown Greeks) and by pick (kept in the Portfolio's Greeks).
TimesPassed ==
    {out.greeks_shown[i][4] : i \in 1..Len(out.greeks_shown)}
    \cup (IF Has(greeks["Portfolio"], "Delta")
          THEN {greeks["Portfolio"].Delta[5]} ELSE {})

\* C14: every time to expiry that pick or add hands to the Greeks calculator
\* is above zero, whatever the day difference.
C14_TimeToExpiryPositive == \A t \in TimesPassed : t > 0

\* C15: for every result of the solver, the refusal is shown exactly when the
\* three weights sum to zero; otherwise the three weights are shown, with the
\* multiple-solutions warning exactly when is_singular.
C15_HedgeReportBySum ==
    out.cmd = "show_calculated_hedge" =>
        LET r == out.result
            zero == r[1] + r[2] + r[3] = 0
        IN  /\ Said(out, "can not be solved") <=> zero
            /\ ~zero => /\ out.table = <<r[1], r[2], r[3]>>
                        /\ Said(out, "yields multiple solutions") <=> r[4]
            /\ zero => /\ out.table = <<>>
                       /\ ~Said(out, "yields multiple solutions")

\* Weights that are not all zero but sum to zero, refused although
\* is_singular is set.
C15_Witness ==
    /\ out.cmd = "show_calculated_hedge"
    /\ out.result[1] # 0 /\ out.result[1] + out.result[2] + out.result[3] = 0
    /\ out.result[4]
    /\ out.msgs = <<"can not be solved">>

\* C16: sop, plot and list leave the Legs, the leg Greeks, the Portfolio
\* Greeks and the underlying position as they were.
C16_ReadOnlyCommands ==
    [][out'.cmd \in {"sop", "plot", "list"}
        => options' = options /\ greeks' = greeks /\ position' = position]_vars

\* A plot drawn with two Legs and a picked position, all still stored.
C16_Witness ==
    /\ out.cmd = "plot" /\ out.plot # <<>>
    /\ HasLeg("Option A") /\ HasLeg("Option B")
    /\ out.plot[1].options = <<options["Option A"], options["Option B"]>>
    /\ GreeksIn(greeks, "Portfolio") /\ ~NeverPicked

\* rmv with a slot name, another name, or -a
RmvWithTarget == {a \in RmvArgs : a.parsed /\ (a.all \/ a.option # "None")}

\* C17: rmv of a slot name, of another name, or of all, while neither slot
\* holds a Leg, says so and changes neither the Legs, nor any Greeks, nor the
\* keys of the slots.
C17_RmvWithoutLegsIsNoOp ==
    [][\A a \in RmvWithTarget :
        (out'.cmd = "rmv" /\ call_rmv(a) /\ ~HasLeg("Option A") /\ ~HasLeg("Option B"))
        => /\ Reported(out')
           /\ options' = options /\ greeks' = greeks
           /\ DOMAIN options' = DOMAIN options]_vars

\* A rmv refused for want of Legs after a pick: the Portfolio Greeks are kept.
C17_Witness ==
    /\ out.cmd = "rmv" /\ out.msgs = <<"Please add Options">>
    /\ ~HasLeg("Option A") /\ ~HasLeg("Option B")
    /\ GreeksIn(greeks, "Portfolio") /\ DOMAIN options = DOMAIN greeks

\* C18: at most two Legs are stored, and the Leg and Greeks of a slot that
\* holds a Leg change only through rmv of that slot or rmv of all: no add and
\* no pick overwrites or moves a stored Leg.
C18_StoredLegStays ==
    [][/\ Cardinality({k \in DOMAIN options' : NonEmpty(options'[k])}) <= 2
       /\ \A s \in Slots :
            (HasLeg(s) /\ (options'[s] # options[s] \/ greeks'[s] # greeks[s]))
            => /\ out'.cmd = "rmv"
               /\ call_rmv(RmvNamed(s)) \/ call_rmv(RmvAll)]_vars

\* An add refused with both slots taken: both Legs are still stored.
C18_Witness ==
    /\ out.cmd = "add" /\ Said(out, "The functionality only accepts two options")
    /\ HasLeg("Option A") /\ HasLeg("Option B")
    /\ options["Option A"] # options["Option B"]

\* C19: an add whose identifier names no row of the chain side it selects
\* (puts under either spelling of the put flag, calls otherwise) is reported
\* and leaves the Legs and Greeks of both slots as they were.
C19_OutOfRangeAddReported ==
    [][\A a \in AddArgs :
        (out'.cmd = "add" /\ call_add(a) /\ ~AddInRange(a))
        => /\ Reported(out')
           /\ \A s \in Slots : options'[s] = options[s] /\ greeks'[s] = greeks[s]]_vars

\* Every add that names a row is refused for want of a free slot.
AddBlocked == PortfolioPicked /\ AddSlot = "none"

\* Every rmv is refused for want of a Leg.
RmvBlocked == RmvNoLegs(options)

\* C20: after a pick, the session is never in a state where every add is
\* refused with "only accepts two options" and every rmv is refused with
\* "Please add Options".
C20_NeverStuck == ~NeverPicked => ~(AddBlocked /\ RmvBlocked)

\* The amount, leg side and position sign of a recorded solver call.
SolverInputs(call) == <<call.amount, call.side, call.sign>>

\* C21: when an add has filled the second slot and called the solver, a sop
\* issued right after it calls the solver with the same amount, leg side and
\* position sign, whatever the legs and whichever slot was filled last.
C21_SopRepeatsAddSolverInputs ==
    [][(out'.cmd = "sop" /\ out.cmd = "add" /\ out.solver # <<>>)
        => /\ out'.solver # <<>>
           /\ SolverInputs(out'.solver[1]) = SolverInputs(out.solver[1])]_vars

====
